---- MODULE Spec2Model ----
(***************************************************************************)
(* Model of backend/server.js: the CSRF token cache (csrfTokens,           *)
(* getStoredCSRFToken, storeCSRFToken), the token acquirer (getCSRFToken)  *)
(* and the two calls built on them, validateCookieWithRoblox and           *)
(* refreshCookieWithRoblox.                                                *)
(*                                                                         *)
(* Every call is an async task.  A task runs without interruption from one *)
(* network await to the next; the upstream's answer to each fetch (any     *)
(* status, header, body, or a thrown request) is chosen by the environment *)
(* when the await completes.  Time (Date.now) advances between steps.      *)
(***************************************************************************)
EXTENDS Integers, Sequences, FiniteSets, TLC

VARIABLES csrfTokens, now, calls, started, env, lastStore

vars == <<csrfTokens, now, calls, started, env, lastStore>>

-----------------------------------------------------------------------------
(* Bounds of the model *)

\* number of clock steps the model explores
MaxTicks == 2
\* number of validate/refresh calls started over a run
MaxCalls == 2

\* one clock step: half the freshness window, so that a token is seen at
\* ages below, exactly at, and above 5 minutes
TickStep == (5 * 60 * 1000) \div 2

Tasks == {1, 2}
Cookies == {"S1", "S2"}
Tokens == {"T1", "T2"}

-----------------------------------------------------------------------------
(* Values *)

\* JavaScript null / undefined
null == "null"
undefined == "undefined"

\* `if (x)` on a string-or-null value
Truthy(x) == x # null /\ x # undefined /\ x # ""

\* the endpoint lists of getCSRFToken and refreshCookieWithRoblox
csrfEndpoints ==
    << [url |-> "https://auth.roblox.com/v2/login", method |-> "POST"],
       [url |-> "https://www.roblox.com/home", method |-> "GET"],
       [url |-> "https://users.roblox.com/v1/users/authenticated", method |-> "GET"],
       [url |-> "https://itemconfiguration.roblox.com/v1/creations/get-asset-details",
        method |-> "POST"] >>

refreshEndpoints ==
    << [url |-> "https://economy.roblox.com/v1/user/currency", method |-> "GET",
        description |-> "Economy endpoint"],
       [url |-> "https://thumbnails.roblox.com/v1/users/avatar", method |-> "GET",
        description |-> "Avatar endpoint"],
       [url |-> "https://catalog.roblox.com/v1/catalog/items/details", method |-> "POST",
        description |-> "Catalog endpoint"] >>

\* The bodies an upstream response can carry, by what the code can tell apart:
\*   XsrfJson   JSON error document holding 'Token Validation Failed'
\*   CsrfText   plain text holding 'CSRF'
\*   User1/2    JSON identity documents
\*   Html       text that is neither JSON nor holds a marker
\*   Unreadable the body stream fails while it is read
Bodies == {"XsrfJson", "CsrfText", "User1", "User2", "Html", "Unreadable"}

\* responseText.includes(marker)
includes(body, marker) ==
    \/ marker = "Token Validation Failed" /\ body = "XsrfJson"
    \/ marker = "CSRF" /\ body = "CsrfText"

\* await response.text(): the text, or the exception it rejects with
text(body) ==
    IF body = "Unreadable" THEN [threw |-> TRUE, message |-> "body stream error", value |-> null]
    ELSE [threw |-> FALSE, message |-> null, value |-> body]

\* await response.json(): the parsed document, or the exception
json(body) ==
    CASE body = "User1" ->
           [threw |-> FALSE, message |-> null,
            value |-> [id |-> "id1", name |-> "name1", displayName |-> "display1"]]
      [] body = "User2" ->
           [threw |-> FALSE, message |-> null,
            value |-> [id |-> "id2", name |-> "name2", displayName |-> "display2"]]
      [] body = "XsrfJson" ->
           [threw |-> FALSE, message |-> null,
            value |-> [id |-> undefined, name |-> undefined, displayName |-> undefined]]
      [] body = "Unreadable" ->
           [threw |-> TRUE, message |-> "body stream error",
            value |-> [id |-> undefined, name |-> undefined, displayName |-> undefined]]
      [] OTHER ->
           [threw |-> TRUE, message |-> "invalid json",
            value |-> [id |-> undefined, name |-> undefined, displayName |-> undefined]]

\* response.ok
ok(status) == status >= 200 /\ status <= 299

\* What a fetch ends with: a response, or a thrown exception (threw = TRUE)
Response(st, hdr, www, b) ==
    [threw |-> FALSE, status |-> st, csrf |-> hdr, wwwAuthenticate |-> www, body |-> b]
Thrown ==
    [threw |-> TRUE, status |-> 0, csrf |-> null, wwwAuthenticate |-> null, body |-> null]
\* a response variable that holds nothing (yet)
NoResponse ==
    [threw |-> FALSE, status |-> 0, csrf |-> null, wwwAuthenticate |-> null, body |-> null]

FetchError == "request failed"

\* The upstream behaviours drawn per environment.  "full" is every case the
\* code tells apart; "lean" keeps one representative of each class; "one" is
\* "lean" with an upstream that hands out the same token value every time.
Statuses(e) ==
    IF e = "full" THEN {200, 201, 204, 401, 403, 500} ELSE {200, 401, 403, 500}
BodiesOf(e) ==
    IF e = "full" THEN Bodies ELSE {"CsrfText", "User1"}

\* answers to a token-acquisition request: the x-csrf-token header decides,
\* then status 403 with a www-authenticate header naming X-CSRF-TOKEN
AcqOutcomes(e) ==
    {Thrown} \cup
    { Response(st, hdr, www, "Html") :
        st \in {200, 403},
        hdr \in (IF e = "one" THEN {"T1"} ELSE Tokens) \cup {null},
        www \in {null, "X-CSRF-TOKEN"} }

\* answers to an identity or session-extending request
ApiOutcomes(e) ==
    {Thrown} \cup { Response(st, null, null, b) : st \in Statuses(e), b \in BodiesOf(e) }

-----------------------------------------------------------------------------
(* Token cache *)

NoEntry == [token |-> null, timestamp |-> 0 - 1]

\* csrfTokens.get(c) is undefined
Missing(map, c) == map[c] = NoEntry

\* the window taken one instant too long: an entry exactly five minutes old
\* still counts as fresh
getStoredCSRFToken_lax(map, robloxCookie, t) ==
    LET tokenData == map[robloxCookie] IN
    IF Missing(map, robloxCookie) THEN [ret |-> null, map |-> map]
    ELSE IF t - tokenData.timestamp <= 5 * 60 * 1000
         THEN [ret |-> tokenData.token, map |-> map]
         ELSE [ret |-> null, map |-> [map EXCEPT ![robloxCookie] = NoEntry]]

\* getStoredCSRFToken(robloxCookie) at time t: the value returned and the map
\* it leaves behind
getStoredCSRFToken(map, robloxCookie, t) ==
    LET tokenData == map[robloxCookie] IN
    IF Missing(map, robloxCookie) THEN [ret |-> null, map |-> map]
    ELSE IF t - tokenData.timestamp < 5 * 60 * 1000
         THEN [ret |-> tokenData.token, map |-> map]
         ELSE [ret |-> null, map |-> [map EXCEPT ![robloxCookie] = NoEntry]]

\* a store that keeps an entry already there: the first write wins
storeCSRFToken_ifAbsent(map, robloxCookie, token, t) ==
    IF Missing(map, robloxCookie)
    THEN [map EXCEPT ![robloxCookie] = [token |-> token, timestamp |-> t]]
    ELSE map

\* storeCSRFToken(robloxCookie, token) at time t
storeCSRFToken(map, robloxCookie, token, t) ==
    [map EXCEPT ![robloxCookie] = [token |-> token, timestamp |-> t]]

-----------------------------------------------------------------------------
(* Outcomes *)

\* the record validateCookieWithRoblox resolves with
Invalid(message) ==
    [ret |-> "returned", valid |-> FALSE, userId |-> undefined, username |-> undefined,
     displayName |-> undefined, error |-> message]
Valid(userData) ==
    [ret |-> "returned", valid |-> TRUE, userId |-> userData.id, username |-> userData.name,
     displayName |-> userData.displayName, error |-> undefined]
NoValidation ==
    [ret |-> "none", valid |-> FALSE, userId |-> undefined, username |-> undefined,
     displayName |-> undefined, error |-> undefined]

\* the record refreshCookieWithRoblox resolves with
NotRefreshed(message) ==
    [ret |-> "returned", refreshed |-> FALSE, cookie |-> undefined, warning |-> undefined,
     error |-> message]
Refreshed(robloxCookie, warning) ==
    [ret |-> "returned", refreshed |-> TRUE, cookie |-> robloxCookie, warning |-> warning,
     error |-> undefined]
NoOutcome ==
    [ret |-> "none", refreshed |-> FALSE, cookie |-> undefined, warning |-> undefined,
     error |-> undefined]

-----------------------------------------------------------------------------
(* One call: the locals of the running functions, and what it has done *)

\* the places getCSRFToken is called from (line numbers of server.js)
Sites == {"v117", "v156", "r245", "r321"}

NoPrev ==
    [fn |-> "none", robloxCookie |-> null, startedAt |-> 0, runs |-> 0,
     rejected |-> FALSE, token |-> null, rejectedToken |-> null]

IdleCall ==
    [ fn |-> "idle",                \* the function called: validate or refresh
      robloxCookie |-> null,        \* its argument
      pc |-> "idle",                \* the await the task is suspended at
      site |-> "none",              \* where the running getCSRFToken returns to
      e |-> 0,                      \* getCSRFToken: index of the endpoint being tried
      x |-> 0,                      \* refresh: index of the endpoint being tried
      vToken |-> null,              \* validate's csrfToken
      rToken |-> null,              \* refresh's csrfToken
      acquired |-> null,            \* the value getCSRFToken returned
      response |-> NoResponse,      \* validate's / this iteration's response
      retryResponse |-> NoResponse,
      lastResponse |-> 0,           \* refresh: lastResponse.status, 0 for null
      validation |-> NoValidation,  \* what validate returned
      outcome |-> NoOutcome,        \* what refresh returned
      \* history of the call
      startedAt |-> 0,
      acqRuns |-> [s \in Sites |-> 0],  \* getCSRFToken runs, by call site
      acqSent |-> << >>,            \* endpoints requested by the running getCSRFToken
      acqHdrs |-> << >>,            \* x-csrf-token value of each answer to it
      sent |-> null,                \* X-CSRF-TOKEN of the request in flight
      identCount |-> 0,             \* identity requests of the running validate
      extCount |-> 0,               \* requests sent to endpoint x
      lastSeen |-> 0,               \* status of the last session-extending answer
      saw401 |-> FALSE,             \* some session-extending answer was 401
      overlapped |-> FALSE,         \* another task's call was running when this one began
      tokenAt |-> 0 - 1,            \* when the token the call holds was stored
      requests |-> 0,               \* upstream requests the call has issued
      prev |-> NoPrev ]             \* the call this task made before

\* the task waits for no network answer but is inside one synchronous run
SyncPcs == {"acquired", "validated"}

\* while a task is inside a synchronous run nothing else happens
Quiet == \A u \in Tasks : calls[u].pc \notin SyncPcs

-----------------------------------------------------------------------------
(* getCSRFToken *)

\* entry to getCSRFToken from `site`: the first endpoint is requested
getCSRFTokenEnter(c, site) ==
    [c EXCEPT !.pc = "acq", !.site = site, !.e = 1, !.acquired = null,
              !.acqRuns[site] = @ + 1, !.acqSent = << 1 >>, !.acqHdrs = << >>]

\* looking at the status before the header: a 403 never yields a token
getCSRFTokenDecide_statusFirst(r) ==
    IF r.threw THEN "continue"
    ELSE IF r.status = 403 THEN "continue"
    ELSE IF Truthy(r.csrf) THEN "return"
    ELSE "continue"

\* what the loop body does with the answer: "return" the header's value,
\* or "continue" with the next endpoint
getCSRFTokenDecide(r) ==
    IF r.threw THEN "continue"
    ELSE IF Truthy(r.csrf) THEN "return"
    ELSE IF r.status = 403 /\ Truthy(r.wwwAuthenticate)
            /\ r.wwwAuthenticate = "X-CSRF-TOKEN" THEN "continue"
    ELSE "continue"

\* a failed run that also drops the entry the session had
getCSRFTokenOnResponse_clearOnFailure(c, map, r, t) ==
    LET c1 == [c EXCEPT !.acqHdrs = Append(@, IF r.threw THEN null ELSE r.csrf)] IN
    IF getCSRFTokenDecide(r) = "return"
    THEN [c |-> [c1 EXCEPT !.pc = "acquired", !.acquired = r.csrf],
          map |-> storeCSRFToken(map, c.robloxCookie, r.csrf, t)]
    ELSE IF c.e < Len(csrfEndpoints)
    THEN [c |-> [c1 EXCEPT !.e = @ + 1, !.acqSent = Append(@, c.e + 1)], map |-> map]
    ELSE [c |-> [c1 EXCEPT !.pc = "acquired", !.acquired = null],
          map |-> [map EXCEPT ![c.robloxCookie] = NoEntry]]

\* a run that starts over at the first endpoint instead of giving up
getCSRFTokenOnResponse_startOver(c, map, r, t) ==
    LET c1 == [c EXCEPT !.acqHdrs = Append(@, IF r.threw THEN null ELSE r.csrf)] IN
    IF getCSRFTokenDecide(r) = "return"
    THEN [c |-> [c1 EXCEPT !.pc = "acquired", !.acquired = r.csrf],
          map |-> storeCSRFToken(map, c.robloxCookie, r.csrf, t)]
    ELSE IF c.e < Len(csrfEndpoints)
    THEN [c |-> [c1 EXCEPT !.e = @ + 1, !.acqSent = Append(@, c.e + 1)], map |-> map]
    ELSE [c |-> [c1 EXCEPT !.e = 1, !.acqSent = << 1 >>, !.acqHdrs = << >>], map |-> map]

\* the fetch of endpoint c.e ended with r at time t
getCSRFTokenOnResponse(c, map, r, t) ==
    LET c1 == [c EXCEPT !.acqHdrs = Append(@, IF r.threw THEN null ELSE r.csrf)] IN
    IF getCSRFTokenDecide(r) = "return"
    THEN [c |-> [c1 EXCEPT !.pc = "acquired", !.acquired = r.csrf],
          map |-> storeCSRFToken(map, c.robloxCookie, r.csrf, t)]
    ELSE IF c.e < Len(csrfEndpoints)
    THEN [c |-> [c1 EXCEPT !.e = @ + 1, !.acqSent = Append(@, c.e + 1)], map |-> map]
    ELSE [c |-> [c1 EXCEPT !.pc = "acquired", !.acquired = null], map |-> map]

-----------------------------------------------------------------------------
(* validateCookieWithRoblox *)

validateReturn(c, result) ==
    [c EXCEPT !.pc = IF c.fn = "validate" THEN "done" ELSE "validated",
              !.validation = result]

\* the try block without its catch: the exception leaves the function
validateCatch_rethrow(c, message) ==
    validateReturn(c, [Invalid(message) EXCEPT !.ret = "thrown"])

\* catch (error) { return { valid: false, error: error.message } }
validateCatch(c, message) == validateReturn(c, Invalid(message))

\* fetch of the identity endpoint with X-CSRF-TOKEN: token
validateFetch(c, token, pc) ==
    [c EXCEPT !.pc = pc, !.vToken = token, !.sent = token, !.identCount = @ + 1]

\* entry that never asks the cache
validateEnter_noCache(c, map, t) ==
    [c |-> getCSRFTokenEnter(c, "v117"), map |-> map]

\* entry: the stored token, or else getCSRFToken
validateEnter(c, map, t) ==
    LET g == getStoredCSRFToken(map, c.robloxCookie, t) IN
    IF Truthy(g.ret) THEN [c |-> validateFetch(c, g.ret, "ident"), map |-> g.map]
    ELSE [c |-> getCSRFTokenEnter(c, "v117"), map |-> g.map]

\* getCSRFToken returned to line 117
validateAcquired(c) ==
    IF ~Truthy(c.acquired)
    THEN validateReturn([c EXCEPT !.vToken = c.acquired],
                        Invalid("Could not obtain CSRF token for validation"))
    ELSE validateFetch(c, c.acquired, "ident")

\* const userData = await response.json(); return { valid: true, ... }
validateParse(c, r) ==
    LET userData == json(r.body) IN
    IF userData.threw THEN validateCatch(c, userData.message)
    ELSE validateReturn(c, Valid(userData.value))

\* every 403 taken for a token rejection, whatever its body says
validateOnResponse_any403(c, r) ==
    IF r.threw THEN validateCatch(c, FetchError)
    ELSE LET c1 == [c EXCEPT !.response = r] IN
      IF r.status = 401 THEN validateReturn(c1, Invalid("Cookie is invalid or expired"))
      ELSE IF r.status = 403 THEN getCSRFTokenEnter(c1, "v156")
      ELSE IF ~ok(r.status)
      THEN validateReturn(c1, Invalid("Roblox API returned " \o ToString(r.status)))
      ELSE validateParse(c1, r)

\* the first identity fetch ended with r
validateOnResponse(c, r) ==
    IF r.threw THEN validateCatch(c, FetchError)
    ELSE LET c1 == [c EXCEPT !.response = r] IN
      IF r.status = 401 THEN validateReturn(c1, Invalid("Cookie is invalid or expired"))
      ELSE IF r.status = 403 THEN
        LET responseText == text(r.body) IN
        IF responseText.threw THEN validateCatch(c1, responseText.message)
        ELSE IF includes(responseText.value, "Token Validation Failed")
                \/ includes(responseText.value, "CSRF")
        THEN getCSRFTokenEnter(c1, "v156")
        ELSE validateReturn(c1,
               Invalid("Access forbidden (403). Cookie may have insufficient permissions."))
      ELSE IF ~ok(r.status)
      THEN validateReturn(c1, Invalid("Roblox API returned " \o ToString(r.status)))
      ELSE validateParse(c1, r)

\* the retry sent with the token validate already held
validateReacquired_stale(c) ==
    IF ~Truthy(c.acquired)
    THEN validateReturn([c EXCEPT !.vToken = c.acquired],
                        Invalid("Could not obtain valid CSRF token"))
    ELSE validateFetch(c, c.vToken, "identRetry")

\* getCSRFToken returned to line 156
validateReacquired(c) ==
    IF ~Truthy(c.acquired)
    THEN validateReturn([c EXCEPT !.vToken = c.acquired],
                        Invalid("Could not obtain valid CSRF token"))
    ELSE validateFetch(c, c.acquired, "identRetry")

\* a rejected retry answered by yet another acquisition and retry
validateOnRetryResponse_again(c, r) ==
    IF r.threw THEN validateCatch(c, FetchError)
    ELSE LET c1 == [c EXCEPT !.retryResponse = r] IN
      IF r.status = 403 /\ (includes(r.body, "Token Validation Failed") \/ includes(r.body, "CSRF"))
      THEN getCSRFTokenEnter(c1, "v156")
      ELSE IF ~ok(r.status)
      THEN validateReturn(c1, Invalid("Roblox API returned " \o ToString(r.status)
                                        \o " - Cookie may be invalid"))
      ELSE validateParse(c1, r)

\* the retry fetch ended with r
validateOnRetryResponse(c, r) ==
    IF r.threw THEN validateCatch(c, FetchError)
    ELSE LET c1 == [c EXCEPT !.retryResponse = r] IN
      IF ~ok(r.status)
      THEN validateReturn(c1, Invalid("Roblox API returned " \o ToString(r.status)
                                        \o " - Cookie may be invalid"))
      ELSE validateParse(c1, r)

-----------------------------------------------------------------------------
(* refreshCookieWithRoblox *)

refreshReturn(c, result) == [c EXCEPT !.pc = "done", !.outcome = result]

\* the outer catch (error) { return { refreshed: false, error: error.message } }
refreshCatch(c, message) == refreshReturn(c, NotRefreshed(message))

\* 204 No Content left out of the success statuses
refreshSuccess_no204(status) == status = 200 \/ status = 201

\* status === 200 || status === 201 || status === 204
refreshSuccess(status) == status = 200 \/ status = 201 \/ status = 204

\* one loop iteration starts: endpoint k is requested with X-CSRF-TOKEN: csrfToken
refreshFetch(c, k) ==
    [c EXCEPT !.pc = "ext", !.x = k, !.response = NoResponse, !.retryResponse = NoResponse,
              !.sent = c.rToken, !.extCount = IF k = c.x THEN @ + 1 ELSE 1]

\* the optimistic success returned like a confirmed one, without its warning
refreshExhausted_noWarning(c) ==
    IF c.lastResponse # 0 /\ (c.lastResponse = 403 \/ c.lastResponse = 401)
    THEN refreshReturn(c,
           NotRefreshed("Cookie could not be refreshed due to authentication errors"))
    ELSE refreshReturn(c, Refreshed(c.robloxCookie, undefined))

\* after the loop: lastResponse decides between failure and the optimistic success
refreshExhausted(c) ==
    IF c.lastResponse # 0 /\ (c.lastResponse = 403 \/ c.lastResponse = 401)
    THEN refreshReturn(c,
           NotRefreshed("Cookie could not be refreshed due to authentication errors"))
    ELSE refreshReturn(c,
           Refreshed(c.robloxCookie, "Refresh confirmation failed but cookie appears valid"))

\* `continue`, or the end of the loop body
refreshNext(c) ==
    IF c.x < Len(refreshEndpoints) THEN refreshFetch(c, c.x + 1) ELSE refreshExhausted(c)

\* entry that validates whatever the cache holds
refreshEnter_alwaysValidate(c, map, t) == validateEnter(c, map, t)

\* entry: the stored token, or else validate first
refreshEnter(c, map, t) ==
    LET g == getStoredCSRFToken(map, c.robloxCookie, t) IN
    IF ~Truthy(g.ret) THEN validateEnter(c, g.map, t)
    ELSE [c |-> refreshFetch([c EXCEPT !.rToken = g.ret], 1), map |-> g.map]

\* validate has returned to refresh: its frame and locals are gone
Leave(c) ==
    [c EXCEPT !.vToken = null, !.response = NoResponse, !.retryResponse = NoResponse,
              !.identCount = 0, !.sent = null]

\* validate returned to line 234
refreshValidated(c, map, t) ==
    IF c.validation.ret = "thrown"
    THEN [c |-> refreshCatch(Leave(c), c.validation.error), map |-> map]
    ELSE IF ~c.validation.valid
    THEN [c |-> refreshReturn(Leave(c),
                  NotRefreshed("Cannot refresh invalid cookie: " \o c.validation.error)),
          map |-> map]
    ELSE LET g == getStoredCSRFToken(map, c.robloxCookie, t)
             \* `validation` is scoped to the block of lines 232-242
             c1 == [Leave(c) EXCEPT !.rToken = g.ret, !.validation = NoValidation]
         IN IF ~Truthy(g.ret) THEN [c |-> getCSRFTokenEnter(c1, "r245"), map |-> g.map]
            ELSE [c |-> refreshFetch(c1, 1), map |-> g.map]

\* getCSRFToken returned to line 245
refreshAcquired(c) ==
    IF ~Truthy(c.acquired)
    THEN refreshReturn(c, NotRefreshed("Could not obtain CSRF token for refresh"))
    ELSE refreshFetch([c EXCEPT !.rToken = c.acquired], 1)

\* a thrown session-extending request handed to the outer catch
refreshOnResponse_surface(c, r) ==
    IF r.threw THEN refreshCatch(c, FetchError)
    ELSE LET c1 == [c EXCEPT !.response = r, !.lastResponse = r.status] IN
      IF refreshSuccess(r.status) THEN refreshReturn(c1, Refreshed(c.robloxCookie, undefined))
      ELSE IF r.status = 403 THEN
        LET responseText == text(r.body) IN
        IF responseText.threw THEN refreshNext(c1)
        ELSE IF includes(responseText.value, "Token Validation Failed")
                \/ includes(responseText.value, "CSRF")
        THEN getCSRFTokenEnter(c1, "r321")
        ELSE refreshNext(c1)
      ELSE IF r.status = 401
      THEN refreshReturn(c1, NotRefreshed("Cookie is invalid or expired"))
      ELSE refreshNext(c1)

\* the fetch of endpoint c.x ended with r
refreshOnResponse(c, r) ==
    IF r.threw THEN refreshNext(c)
    ELSE LET c1 == [c EXCEPT !.response = r, !.lastResponse = r.status] IN
      IF refreshSuccess(r.status) THEN refreshReturn(c1, Refreshed(c.robloxCookie, undefined))
      ELSE IF r.status = 403 THEN
        LET responseText == text(r.body) IN
        IF responseText.threw THEN refreshNext(c1)
        ELSE IF includes(responseText.value, "Token Validation Failed")
                \/ includes(responseText.value, "CSRF")
        THEN getCSRFTokenEnter(c1, "r321")
        ELSE refreshNext(c1)
      ELSE IF r.status = 401
      THEN refreshReturn(c1, NotRefreshed("Cookie is invalid or expired"))
      ELSE refreshNext(c1)

\* getCSRFToken returned to line 321: retry the same endpoint, or continue
refreshReacquired(c) ==
    LET c1 == [c EXCEPT !.rToken = c.acquired] IN
    IF Truthy(c.acquired)
    THEN [c1 EXCEPT !.pc = "extRetry", !.sent = c.acquired, !.extCount = @ + 1]
    ELSE refreshNext(c1)

\* a 401 answer to the retry taken as final, like a 401 to the first request
refreshOnRetryResponse_terminal401(c, r) ==
    IF r.threw THEN refreshNext(c)
    ELSE LET c1 == [c EXCEPT !.retryResponse = r] IN
      IF refreshSuccess(r.status) THEN refreshReturn(c1, Refreshed(c.robloxCookie, undefined))
      ELSE IF r.status = 401
      THEN refreshReturn(c1, NotRefreshed("Cookie is invalid or expired"))
      ELSE refreshNext(c1)

\* the retry fetch of endpoint c.x ended with r
refreshOnRetryResponse(c, r) ==
    IF r.threw THEN refreshNext(c)
    ELSE LET c1 == [c EXCEPT !.retryResponse = r] IN
      IF refreshSuccess(r.status) THEN refreshReturn(c1, Refreshed(c.robloxCookie, undefined))
      ELSE refreshNext(c1)

\* what the call has seen from the session-extending endpoints so far
Observe(c, r) ==
    IF r.threw THEN c
    ELSE [c EXCEPT !.lastSeen = r.status, !.saw401 = @ \/ r.status = 401]

-----------------------------------------------------------------------------
(* The steps of a task *)

\* the awaits of a fetch
FetchPcs == {"acq", "ident", "identRetry", "ext", "extRetry"}

\* a run of the task that ends at the await of a fetch has issued that request
Counted(c) ==
    IF env.counts /\ c.pc \in FetchPcs THEN [c EXCEPT !.requests = @ + 1] ELSE c

Step(t, c) == calls' = [calls EXCEPT ![t] = Counted(c)]

\* the call now holds a token that was stored at time `at`
Stamp(c, at) == IF env.ages THEN [c EXCEPT !.tokenAt = at] ELSE c

\* the call went straight to a request: its lookup returned the entry of map
Looked(c, map) ==
    IF c.pc \in {"ident", "ext"} THEN Stamp(c, map[c.robloxCookie].timestamp) ELSE c

\* what is remembered of a call once it has returned
Summary(c) ==
    [fn |-> c.fn, robloxCookie |-> c.robloxCookie, startedAt |-> c.startedAt,
     runs |-> c.acqRuns["v117"] + c.acqRuns["v156"] + c.acqRuns["r245"] + c.acqRuns["r321"],
     rejected |-> c.acqRuns["v156"] + c.acqRuns["r321"] > 0,
     token |-> IF c.fn = "validate" THEN c.vToken ELSE c.rToken,
     \* the token validate took from the cache and saw rejected, when the
     \* re-acquisition that followed returned none
     rejectedToken |-> IF c.fn = "validate" /\ c.acqRuns["v117"] = 0
                          /\ c.acqRuns["v156"] = 1 /\ c.acquired = null
                       THEN c.sent ELSE null]

NewCall(t, fn, robloxCookie) ==
    [IdleCall EXCEPT !.fn = fn, !.robloxCookie = robloxCookie,
                     !.startedAt = IF env.history THEN now ELSE 0,
                     !.overlapped = env.stores /\ \E u \in Tasks \ {t} :
                                                    calls[u].pc \notin {"idle", "done"},
                     !.prev = calls[t].prev]

\* a caller invokes validateCookieWithRoblox(robloxCookie)
CallValidate(t, robloxCookie) ==
    /\ Quiet /\ t \in env.callers /\ robloxCookie \in env.cookies /\ started < MaxCalls
    /\ calls[t].pc = "idle"
    /\ LET w == validateEnter(NewCall(t, "validate", robloxCookie), csrfTokens, now) IN
         /\ Step(t, Looked(w.c, csrfTokens))
         /\ csrfTokens' = w.map
    /\ started' = started + 1
    /\ UNCHANGED <<now, env, lastStore>>

\* a caller invokes refreshCookieWithRoblox(robloxCookie)
CallRefresh(t, robloxCookie) ==
    /\ Quiet /\ t \in env.callers /\ robloxCookie \in env.cookies /\ started < MaxCalls
    /\ calls[t].pc = "idle"
    /\ LET w == refreshEnter(NewCall(t, "refresh", robloxCookie), csrfTokens, now) IN
         /\ Step(t, Looked(w.c, csrfTokens))
         /\ csrfTokens' = w.map
    /\ started' = started + 1
    /\ UNCHANGED <<now, env, lastStore>>

\* the fetch awaited inside getCSRFToken completes
AcquireStep(t, r) ==
    /\ Quiet /\ calls[t].pc = "acq"
    /\ LET w == getCSRFTokenOnResponse(calls[t], csrfTokens, r, now) IN
         /\ Step(t, IF getCSRFTokenDecide(r) = "return" THEN Stamp(w.c, now) ELSE w.c)
         /\ csrfTokens' = w.map
         /\ lastStore' = IF env.stores /\ getCSRFTokenDecide(r) = "return"
                          THEN [lastStore EXCEPT ![calls[t].robloxCookie] =
                                  [token |-> r.csrf, timestamp |-> now]]
                          ELSE lastStore
    /\ UNCHANGED <<now, started, env>>

\* getCSRFToken's result reaches its caller, which runs on to its next await
AcquireReturn(t) ==
    /\ calls[t].pc = "acquired"
    /\ LET c == [calls[t] EXCEPT !.acqSent = << >>, !.acqHdrs = << >>, !.site = "none",
                                 !.e = 0] IN
       Step(t, CASE calls[t].site = "v117" -> validateAcquired(c)
                 [] calls[t].site = "v156" -> validateReacquired(c)
                 [] calls[t].site = "r245" -> refreshAcquired(c)
                 [] calls[t].site = "r321" -> refreshReacquired(c))
    /\ UNCHANGED <<csrfTokens, now, started, env, lastStore>>

\* the first identity fetch of validate completes
IdentityStep(t, r) ==
    /\ Quiet /\ calls[t].pc = "ident"
    /\ Step(t, validateOnResponse(calls[t], r))
    /\ UNCHANGED <<csrfTokens, now, started, env, lastStore>>

\* the retry identity fetch of validate completes
IdentityRetryStep(t, r) ==
    /\ Quiet /\ calls[t].pc = "identRetry"
    /\ Step(t, validateOnRetryResponse(calls[t], r))
    /\ UNCHANGED <<csrfTokens, now, started, env, lastStore>>

\* validate's result reaches refresh, which runs on to its next await
ValidateReturn(t) ==
    /\ calls[t].pc = "validated"
    /\ LET w == refreshValidated(calls[t], csrfTokens, now) IN
         /\ Step(t, Looked(w.c, csrfTokens))
         /\ csrfTokens' = w.map
    /\ UNCHANGED <<now, started, env, lastStore>>

\* the fetch of a session-extending endpoint completes
RefreshStep(t, r) ==
    /\ Quiet /\ calls[t].pc = "ext"
    /\ Step(t, refreshOnResponse(Observe(calls[t], r), r))
    /\ UNCHANGED <<csrfTokens, now, started, env, lastStore>>

\* the retry fetch of a session-extending endpoint completes
RefreshRetryStep(t, r) ==
    /\ Quiet /\ calls[t].pc = "extRetry"
    /\ Step(t, refreshOnRetryResponse(Observe(calls[t], r), r))
    /\ UNCHANGED <<csrfTokens, now, started, env, lastStore>>

\* the caller takes the result; the task can make its next call
Finish(t) ==
    /\ Quiet /\ calls[t].pc = "done"
    /\ Step(t, [IdleCall EXCEPT !.prev = IF env.history THEN Summary(calls[t]) ELSE NoPrev])
    /\ UNCHANGED <<csrfTokens, now, started, env, lastStore>>

\* Date.now() moves on
Tick ==
    /\ Quiet /\ now < MaxTicks * TickStep
    /\ now' = now + TickStep
    /\ UNCHANGED <<csrfTokens, calls, started, env, lastStore>>

Next ==
    \/ \E t \in Tasks, k \in Cookies : CallValidate(t, k)
    \/ \E t \in Tasks, k \in Cookies : CallRefresh(t, k)
    \/ \E t \in Tasks, r \in AcqOutcomes(env.upstream) : AcquireStep(t, r)
    \/ \E t \in Tasks : AcquireReturn(t)
    \/ \E t \in Tasks, r \in ApiOutcomes(env.upstream) : IdentityStep(t, r)
    \/ \E t \in Tasks, r \in ApiOutcomes(env.upstream) : IdentityRetryStep(t, r)
    \/ \E t \in Tasks : ValidateReturn(t)
    \/ \E t \in Tasks, r \in ApiOutcomes(env.upstream) : RefreshStep(t, r)
    \/ \E t \in Tasks, r \in ApiOutcomes(env.upstream) : RefreshRetryStep(t, r)
    \/ \E t \in Tasks : Finish(t)
    \/ Tick

InitWith(e) ==
    /\ csrfTokens = [k \in Cookies |-> NoEntry]
    /\ now = 0
    /\ calls = [t \in Tasks |-> IdleCall]
    /\ started = 0
    /\ env = e
    /\ lastStore = [k \in Cookies |-> NoEntry]

\* one caller, calls made one after the other, every upstream behaviour
Init == InitWith([upstream |-> "full", callers |-> {1}, cookies |-> {"S1"},
                 history |-> FALSE, stores |-> FALSE, ages |-> FALSE, counts |-> FALSE])
Spec == Init /\ [][Next]_vars

\* the calls of validateCookieWithRoblox alone
NextValidate ==
    \/ \E t \in Tasks, k \in Cookies : CallValidate(t, k)
    \/ \E t \in Tasks, r \in AcqOutcomes(env.upstream) : AcquireStep(t, r)
    \/ \E t \in Tasks : AcquireReturn(t)
    \/ \E t \in Tasks, r \in ApiOutcomes(env.upstream) : IdentityStep(t, r)
    \/ \E t \in Tasks, r \in ApiOutcomes(env.upstream) : IdentityRetryStep(t, r)
    \/ \E t \in Tasks : Finish(t)
    \/ Tick

\* one caller validating again and again, the previous call remembered
InitHist == InitWith([upstream |-> "full", callers |-> {1}, cookies |-> {"S1"},
                      history |-> TRUE, stores |-> FALSE, ages |-> FALSE, counts |-> FALSE])
SpecHist == InitHist /\ [][NextValidate]_vars

\* two tasks, each making one validate call, for either cookie, overlapping
\* in every way the awaits allow
NextConc ==
    \/ \E t \in Tasks, k \in Cookies : CallValidate(t, k)
    \/ \E t \in Tasks, r \in AcqOutcomes(env.upstream) : AcquireStep(t, r)
    \/ \E t \in Tasks : AcquireReturn(t)
    \/ \E t \in Tasks, r \in ApiOutcomes(env.upstream) : IdentityStep(t, r)
    \/ \E t \in Tasks, r \in ApiOutcomes(env.upstream) : IdentityRetryStep(t, r)
    \/ Tick

InitConc == InitWith([upstream |-> "lean", callers |-> Tasks, cookies |-> Cookies,
                      history |-> FALSE, stores |-> FALSE, ages |-> FALSE, counts |-> FALSE])
SpecConc == InitConc /\ [][NextConc]_vars

\* two tasks, each making one validate call for the same cookie; the pair
\* written by the latest storeCSRFToken is remembered in lastStore
InitRace == InitWith([upstream |-> "lean", callers |-> Tasks, cookies |-> {"S1"},
                      history |-> FALSE, stores |-> TRUE, ages |-> FALSE, counts |-> FALSE])
SpecRace == InitRace /\ [][NextConc]_vars

\* one caller validating again and again, beginning when the cache already
\* holds a token an earlier call has just stored for the session
InitWarm ==
    /\ \E tok \in Tokens :
         csrfTokens = storeCSRFToken([k \in Cookies |-> NoEntry], "S1", tok, 0)
    /\ now = 0
    /\ calls = [t \in Tasks |-> IdleCall]
    /\ started = 0
    /\ env = [upstream |-> "full", callers |-> {1}, cookies |-> {"S1"},
              history |-> TRUE, stores |-> FALSE, ages |-> FALSE, counts |-> FALSE]
    /\ lastStore = [k \in Cookies |-> NoEntry]
SpecWarm == InitWarm /\ [][NextValidate]_vars

\* one caller, validate and refresh, with the store time of the token each
\* call holds remembered in tokenAt
InitAge == InitWith([upstream |-> "lean", callers |-> {1}, cookies |-> {"S1"},
                     history |-> FALSE, stores |-> FALSE, ages |-> TRUE, counts |-> FALSE])
SpecAge == InitAge /\ [][Next]_vars

\* what task t does once an answer is there: the continuation after an await
Respond(t) ==
    \/ \E r \in AcqOutcomes(env.upstream) : AcquireStep(t, r)
    \/ AcquireReturn(t)
    \/ \E r \in ApiOutcomes(env.upstream) : IdentityStep(t, r)
    \/ \E r \in ApiOutcomes(env.upstream) : IdentityRetryStep(t, r)
    \/ ValidateReturn(t)
    \/ \E r \in ApiOutcomes(env.upstream) : RefreshStep(t, r)
    \/ \E r \in ApiOutcomes(env.upstream) : RefreshRetryStep(t, r)

\* one call of validate or of refresh, followed to its return
NextLive ==
    \/ \E t \in Tasks, k \in Cookies : CallValidate(t, k)
    \/ \E t \in Tasks, k \in Cookies : CallRefresh(t, k)
    \/ \E t \in Tasks : Respond(t)
    \/ Tick

\* one caller, one call, its requests counted; every fetch is answered or
\* throws in the end, and the event loop then runs the continuation
InitLive == InitWith([upstream |-> "one", callers |-> {1}, cookies |-> {"S1"},
                      history |-> FALSE, stores |-> FALSE, ages |-> FALSE,
                      counts |-> TRUE])
SpecLive == InitLive /\ [][NextLive]_vars /\ \A t \in Tasks : WF_vars(Respond(t))

-----------------------------------------------------------------------------
(* Properties *)

FiveMinutes == 5 * 60 * 1000

\* validate has returned (to the caller, or to refresh)
ValidateReturned(c) ==
    \/ c.fn = "validate" /\ c.pc = "done"
    \/ c.fn = "refresh" /\ c.pc = "validated"

RefreshReturned(c) == c.fn = "refresh" /\ c.pc = "done"

IsString(x) == x # undefined /\ x # null

\* C1: validate and refresh never throw to their caller: whatever the upstream
\* does at any of their requests, what a call ends with is a returned record
\* whose success flag (valid / refreshed) is a boolean, with an error string
\* whenever the flag is false.
C1_NeverThrows ==
    \A t \in Tasks :
      LET c == calls[t] IN
      /\ c.validation.ret # "thrown" /\ c.outcome.ret # "thrown"
      /\ ValidateReturned(c) =>
            /\ c.validation.ret = "returned"
            /\ c.validation.valid \in BOOLEAN
            /\ ~c.validation.valid => IsString(c.validation.error)
      /\ RefreshReturned(c) =>
            /\ c.outcome.ret = "returned"
            /\ c.outcome.refreshed \in BOOLEAN
            /\ ~c.outcome.refreshed => IsString(c.outcome.error)

\* a refresh whose inner validate had its identity request throw has
\* returned a failure record carrying that message
C1_Witness ==
    \E t \in Tasks :
      /\ RefreshReturned(calls[t])
      /\ calls[t].outcome.refreshed = FALSE
      /\ calls[t].outcome.error = "Cannot refresh invalid cookie: request failed"

\* the entry of cookie k exists and is less than five minutes old
Fresh(k) == csrfTokens[k] # NoEntry /\ now - csrfTokens[k].timestamp < FiveMinutes

\* task t's step runs a lookup: a call is entered (lines 117 and 231), or
\* refresh takes up a successful validation (line 241)
LookupStep(t) ==
    \/ calls[t].pc = "idle" /\ calls'[t].pc # "idle"
    \/ calls[t].pc = "validated" /\ calls[t].validation.valid /\ calls'[t].pc # "validated"

\* what that lookup returned: the token put on the request sent next, or
\* null when the task went on to acquire a token
LookupResult(t) == IF calls'[t].pc = "acq" THEN null ELSE calls'[t].sent

\* C2: lookup(sessionId) returns the cached token if and only if an entry
\* exists and now - acquiredAt < 5 minutes; an entry 5 minutes old or older
\* is removed by the lookup, which then returns absent; a lookup never
\* removes or changes a fresh entry and never touches another session's
\* entry, however the tasks interleave.
C2_Lookup ==
    [][ /\ \A t \in Tasks :
             LookupStep(t) =>
               LET k == calls'[t].robloxCookie IN
               /\ Fresh(k) => /\ LookupResult(t) = csrfTokens[k].token
                              /\ csrfTokens'[k] = csrfTokens[k]
               /\ ~Fresh(k) => /\ LookupResult(t) = null
                               /\ csrfTokens'[k] = NoEntry
               /\ \A other \in Cookies \ {k} : csrfTokens'[other] = csrfTokens[other]
        /\ \A k \in Cookies :
             csrfTokens[k] # NoEntry /\ csrfTokens'[k] = NoEntry => ~Fresh(k)
      ]_vars

\* a task has just missed on an entry that another task of the same cookie
\* had stored and still uses: the lookup found it stale and removed it
C2_Witness ==
    \E t \in Tasks, u \in Tasks :
      /\ t # u
      /\ calls[t].pc = "acq" /\ calls[t].site = "v117" /\ calls[t].acqHdrs = << >>
      /\ calls[u].pc = "ident" /\ calls[u].robloxCookie = calls[t].robloxCookie
      /\ calls[u].acqRuns["v117"] = 1
      /\ csrfTokens[calls[t].robloxCookie] = NoEntry
      /\ now >= FiveMinutes

FirstHeader(hdrs) == CHOOSE i \in 1..Len(hdrs) : hdrs[i] # null /\ \A j \in 1..(i-1) : hdrs[j] = null

\* C3: when endpoint k is the first of the acquisition list whose response
\* carries the anti-forgery header (earlier ones answer without it, with any
\* status, or throw), acquire issues exactly k requests, in list order,
\* returns that header's value and stores it, so that a lookup made right
\* after returns the same value; no endpoint after k is contacted.
C3_Acquire ==
    \A t \in Tasks :
      LET c == calls[t] IN
      /\ c.pc = "acq" => /\ \A i \in 1..Len(c.acqHdrs) : c.acqHdrs[i] = null
                         /\ Len(c.acqSent) = Len(c.acqHdrs) + 1
      /\ c.pc \in {"acq", "acquired"} => \A i \in 1..Len(c.acqSent) : c.acqSent[i] = i
      /\ (c.pc = "acquired" /\ \E i \in 1..Len(c.acqHdrs) : c.acqHdrs[i] # null) =>
            LET k == FirstHeader(c.acqHdrs) IN
            /\ Len(c.acqSent) = k /\ Len(c.acqHdrs) = k
            /\ c.acquired = c.acqHdrs[k]
            /\ getStoredCSRFToken(csrfTokens, c.robloxCookie, now).ret = c.acqHdrs[k]

\* session S1: endpoint 1 gave no token, endpoint 2 returned x-csrf-token: T1
C3_Witness ==
    \E t \in Tasks :
      /\ calls[t].pc = "acquired" /\ calls[t].robloxCookie = "S1"
      /\ calls[t].acqHdrs = << null, "T1" >>
      /\ calls[t].acquired = "T1"

\* getCSRFToken runs of a call, over all call sites
Runs(c) == c.acqRuns["v117"] + c.acqRuns["v156"] + c.acqRuns["r245"] + c.acqRuns["r321"]

\* task t is in (or has ended) a validate call that follows another validate
\* call for the same cookie and started within five minutes of that one's start
SecondValidate(c) ==
    /\ c.fn = "validate" /\ c.prev.fn = "validate"
    /\ c.prev.robloxCookie = c.robloxCookie
    /\ c.startedAt - c.prev.startedAt < FiveMinutes

HasMarker(body) == includes(body, "Token Validation Failed") \/ includes(body, "CSRF")

\* task t's step takes the answer to validate's first identity request
IdentityDecided(t) == calls[t].pc = "ident" /\ calls'[t].pc # "ident"

\* the step ends validate, having sent one identity request and having left
\* acquisition and cache alone
DecidedAtOnce(t) ==
    /\ ValidateReturned(calls'[t])
    /\ calls'[t].validation.ret = "returned"
    /\ calls'[t].identCount = 1
    /\ calls'[t].acqRuns = calls[t].acqRuns
    /\ csrfTokens' = csrfTokens

\* C5 as stated: the first identity response decides at once: 401, 403
\* without marker and any other non-2xx status return valid:false, 2xx
\* returns valid:true with the identity fields of that response; one identity
\* request, no re-acquisition, cache unchanged.
C5_FirstResponseDecides ==
    [][ \A t \in Tasks :
          LET r == calls'[t].response
              v == calls'[t].validation
          IN (IdentityDecided(t) /\ r.status # 0 /\ ~(r.status = 403 /\ HasMarker(r.body))) =>
               /\ DecidedAtOnce(t)
               /\ ~ok(r.status) => ~v.valid
               /\ ok(r.status) => /\ v.valid
                                  /\ v.userId = json(r.body).value.id
                                  /\ v.username = json(r.body).value.name
                                  /\ v.displayName = json(r.body).value.displayName
      ]_vars

\* C5 amended: as stated, except that the body must be read: a 2xx answer
\* returns valid:true with its identity fields when its body parses as JSON,
\* and a 2xx answer whose body cannot be read or parsed, like a 403 answer
\* whose body cannot be read, returns valid:false with the exception's
\* message; one identity request, no re-acquisition, cache unchanged.
C5_FirstResponseDecidesParsed ==
    [][ \A t \in Tasks :
          LET r == calls'[t].response
              v == calls'[t].validation
          IN (IdentityDecided(t) /\ r.status # 0) =>
               /\ r.status = 401 =>
                     DecidedAtOnce(t) /\ v = Invalid("Cookie is invalid or expired")
               /\ (r.status = 403 /\ r.body # "Unreadable" /\ ~HasMarker(r.body)) =>
                     /\ DecidedAtOnce(t)
                     /\ v = Invalid("Access forbidden (403). Cookie may have insufficient permissions.")
               /\ (r.status = 403 /\ r.body = "Unreadable") =>
                     DecidedAtOnce(t) /\ v = Invalid("body stream error")
               /\ (~ok(r.status) /\ r.status \notin {401, 403}) =>
                     /\ DecidedAtOnce(t)
                     /\ v = Invalid("Roblox API returned " \o ToString(r.status))
               /\ (ok(r.status) /\ r.body \in {"User1", "User2", "XsrfJson"}) =>
                     /\ DecidedAtOnce(t)
                     /\ v.valid /\ v.error = undefined
                     /\ v.userId = json(r.body).value.id
                     /\ v.username = json(r.body).value.name
                     /\ v.displayName = json(r.body).value.displayName
               /\ (ok(r.status) /\ r.body \notin {"User1", "User2", "XsrfJson"}) =>
                     /\ DecidedAtOnce(t)
                     /\ ~v.valid /\ v.error \in {"invalid json", "body stream error"}
      ]_vars

\* validate has returned valid:true for user 2 on its only identity request
C5_Witness ==
    \E t \in Tasks :
      /\ ValidateReturned(calls[t]) /\ calls[t].identCount = 1
      /\ calls[t].response.status = 200 /\ calls[t].response.body = "User2"
      /\ calls[t].validation.valid /\ calls[t].validation.userId = "id2"

\* validate's first identity response was an anti-forgery rejection
Rejected(c) == c.response.status = 403 /\ HasMarker(c.response.body)

\* C6 as stated: whenever the first identity response is 403 with an
\* anti-forgery body, validate re-runs acquisition and then sends the identity
\* request exactly once more, with the newly acquired token; a 2xx retry
\* returns valid:true with the fields of the retry's body.
C6_RetryOnce ==
    \A t \in Tasks :
      LET c == calls[t] IN
      /\ c.pc = "identRetry" => c.sent = c.acquired /\ c.acquired # null
      /\ (ValidateReturned(c) /\ Rejected(c)) =>
            /\ c.acqRuns["v156"] = 1
            /\ c.identCount = 2
            /\ ok(c.retryResponse.status) =>
                  /\ c.validation.valid
                  /\ c.validation.userId = json(c.retryResponse.body).value.id
                  /\ c.validation.username = json(c.retryResponse.body).value.name
                  /\ c.validation.displayName = json(c.retryResponse.body).value.displayName

\* C6 amended: whenever the first identity response is 403 with an
\* anti-forgery body, validate re-runs acquisition once; if that yields a
\* token it sends the identity request exactly once more, with the token the
\* acquisition returned, and a 2xx retry whose body parses returns valid:true
\* with the fields of the retry's body (valid:false if it does not parse); if
\* it yields none, validate returns valid:false without a retry.
C6_RetryOnceIfAcquired ==
    \A t \in Tasks :
      LET c == calls[t] IN
      /\ c.pc = "identRetry" =>
            c.sent = c.acquired /\ c.acquired # null /\ c.identCount = 2 /\ Rejected(c)
      /\ (ValidateReturned(c) /\ Rejected(c)) =>
            /\ c.acqRuns["v156"] = 1
            /\ c.acquired = null =>
                  /\ c.identCount = 1
                  /\ c.validation = Invalid("Could not obtain valid CSRF token")
            /\ c.acquired # null =>
                  /\ c.identCount = 2
                  /\ (ok(c.retryResponse.status)
                        /\ c.retryResponse.body \in {"User1", "User2", "XsrfJson"}) =>
                        /\ c.validation.valid
                        /\ c.validation.userId = json(c.retryResponse.body).value.id
                        /\ c.validation.username = json(c.retryResponse.body).value.name
                        /\ c.validation.displayName = json(c.retryResponse.body).value.displayName
                  /\ (ok(c.retryResponse.status)
                        /\ c.retryResponse.body \notin {"User1", "User2", "XsrfJson"}) =>
                        ~c.validation.valid

\* rejected once, then 200 with user 2's identity on the retry
C6_Witness ==
    \E t \in Tasks :
      LET c == calls[t] IN
      /\ ValidateReturned(c) /\ Rejected(c) /\ c.identCount = 2
      /\ c.retryResponse.status = 200 /\ c.retryResponse.body = "User2"
      /\ c.validation.valid /\ c.validation.userId = "id2"

\* C7: retry bound of one: a validate call sends at most two identity
\* requests and re-acquires at most once; when first response and retry are
\* both anti-forgery rejections it returns valid:false, with no third request
\* and no further acquisition; a refresh call sends at most two requests to
\* the same session-extending endpoint.
C7_RetryBound ==
    \A t \in Tasks :
      LET c == calls[t] IN
      /\ c.identCount <= 2
      /\ c.acqRuns["v156"] <= 1
      /\ c.extCount <= 2
      /\ c.acqRuns["r321"] <= c.x
      /\ (c.identCount > 0 /\ Rejected(c)
            /\ c.retryResponse.status = 403 /\ HasMarker(c.retryResponse.body)) =>
            /\ ValidateReturned(c)
            /\ ~c.validation.valid
            /\ c.identCount = 2
            /\ c.acqRuns["v156"] = 1

\* both identity answers were anti-forgery rejections and validate gave up
C7_Witness ==
    \E t \in Tasks :
      LET c == calls[t] IN
      /\ ValidateReturned(c) /\ Rejected(c)
      /\ c.retryResponse.status = 403 /\ HasMarker(c.retryResponse.body)
      /\ ~c.validation.valid /\ c.identCount = 2

\* C8: as soon as a session-extending endpoint answers 200, 201 or 204, to
\* the first request or to the retry, refresh returns refreshed:true with the
\* cookie it was given and no warning; no later endpoint is contacted.
C8_FirstSuccessWins ==
    \A t \in Tasks :
      LET c == calls[t] IN
      c.lastSeen \in {200, 201, 204} =>
        /\ RefreshReturned(c)
        /\ c.outcome = Refreshed(c.robloxCookie, undefined)
        /\ c.outcome.cookie = c.robloxCookie /\ c.outcome.warning = undefined

\* the second endpoint answered 201 to its retry and refresh returned success
C8_Witness ==
    \E t \in Tasks :
      LET c == calls[t] IN
      /\ RefreshReturned(c) /\ c.x = 2 /\ c.retryResponse.status = 201
      /\ c.outcome.refreshed /\ c.outcome.warning = undefined

\* refresh has gone through its whole list without a success and without a
\* terminal 401
Exhausted(c) ==
    /\ RefreshReturned(c) /\ c.x = Len(refreshEndpoints)
    /\ c.lastSeen \notin {200, 201, 204}
    /\ c.response.status # 401

\* C9 as stated: when refresh exhausts its list, it returns refreshed:false
\* if the last status it observed from an endpoint was 401 or 403, and
\* otherwise the optimistic refreshed:true with the cookie and a warning.
C9_LastObservedStatus ==
    \A t \in Tasks :
      LET c == calls[t] IN
      Exhausted(c) =>
        IF c.lastSeen \in {401, 403}
        THEN ~c.outcome.refreshed
        ELSE /\ c.outcome.refreshed
             /\ c.outcome.cookie = c.robloxCookie
             /\ c.outcome.warning # undefined

\* C10 as stated: a 401 from a session-extending endpoint is terminal:
\* refresh returns refreshed:false (cookie invalid or expired) at once, with
\* no later endpoint contacted, and never the optimistic success.
C10_Terminal401 ==
    \A t \in Tasks :
      LET c == calls[t] IN
      c.saw401 =>
        /\ RefreshReturned(c)
        /\ c.outcome = NotRefreshed("Cookie is invalid or expired")

\* task t's step enters refreshCookieWithRoblox
RefreshEntered(t) == calls[t].pc = "idle" /\ calls'[t].fn = "refresh"

\* task t's step takes validate's result back into refresh (line 234)
ValidationTaken(t) == calls[t].pc = "validated" /\ calls'[t].pc # "validated"

\* task t's step takes the result of the direct acquisition (line 245)
DirectAcquisitionTaken(t) ==
    calls[t].pc = "acquired" /\ calls[t].site = "r245" /\ calls'[t].pc # "acquired"

\* the first session-extending endpoint is requested with token tok
FirstEndpointAsked(c, tok) == c.pc = "ext" /\ c.x = 1 /\ c.extCount = 1 /\ c.sent = tok

\* C11: refresh token resolution: with a fresh token in the cache, refresh
\* goes to the session-extending endpoints without validate and without the
\* acquirer; with none it runs validate, and when validate returns
\* valid:false it returns refreshed:false carrying validate's error, with no
\* session-extending request; only when validate succeeded and the cache is
\* still absent does it call the acquirer directly, and it returns
\* refreshed:false when that acquisition fails.
C11_TokenResolution ==
    [][ \A t \in Tasks :
          LET c == calls[t]
              d == calls'[t]
              k == d.robloxCookie
          IN
          /\ RefreshEntered(t) =>
               /\ Fresh(k) => /\ FirstEndpointAsked(d, csrfTokens[k].token)
                              /\ d.identCount = 0 /\ Runs(d) = 0
                              /\ d.validation = NoValidation
               /\ ~Fresh(k) => /\ d.pc = "acq" /\ d.site = "v117" /\ d.x = 0
          /\ ValidationTaken(t) =>
               /\ ~c.validation.valid =>
                    /\ RefreshReturned(d)
                    /\ d.outcome = NotRefreshed("Cannot refresh invalid cookie: "
                                                  \o c.validation.error)
                    /\ d.x = 0 /\ d.extCount = 0 /\ d.acqRuns["r245"] = 0
               /\ (c.validation.valid /\ Fresh(k)) =>
                    /\ FirstEndpointAsked(d, csrfTokens[k].token)
                    /\ d.acqRuns["r245"] = 0
               /\ (c.validation.valid /\ ~Fresh(k)) =>
                    /\ d.pc = "acq" /\ d.site = "r245" /\ d.acqRuns["r245"] = 1 /\ d.x = 0
          /\ DirectAcquisitionTaken(t) =>
               /\ c.acquired = null =>
                    /\ RefreshReturned(d)
                    /\ d.outcome = NotRefreshed("Could not obtain CSRF token for refresh")
                    /\ d.x = 0 /\ d.extCount = 0
               /\ c.acquired # null => FirstEndpointAsked(d, c.acquired)
          /\ d.acqRuns["r245"] > c.acqRuns["r245"] =>
               ValidationTaken(t) /\ c.validation.valid /\ ~Fresh(k)
          /\ (d.fn = "refresh" /\ d.pc \in {"ident", "identRetry", "validated"}) => d.x = 0
      ]_vars

\* validate succeeded, the token it had stored was five minutes old by then,
\* and the direct acquisition found none: refresh returned the failure
C11_Witness ==
    \E t \in Tasks :
      LET c == calls[t] IN
      /\ RefreshReturned(c) /\ c.acqRuns["r245"] = 1 /\ c.acqRuns["v117"] = 1
      /\ c.outcome = NotRefreshed("Could not obtain CSRF token for refresh")

\* the step leaves endpoint c.x behind: the next endpoint of the list is
\* requested with the token refresh holds, or, after the last one, the loop
\* is over and the call returns what lines 357-371 decide
Continues(c, d) ==
    IF c.x < Len(refreshEndpoints)
    THEN d.pc = "ext" /\ d.x = c.x + 1 /\ d.extCount = 1
    ELSE RefreshReturned(d) /\ d.outcome = refreshExhausted(c).outcome

\* C12: in refresh, an endpoint's 403 answer with an anti-forgery body makes
\* the call re-acquire the token once and, with a token obtained, retry that
\* same endpoint once with the new token; 200/201/204 on the retry returns
\* success; every other result (any other status, 401 included, a thrown
\* retry, a failed re-acquisition) is not terminal: the call continues with
\* the next endpoint of the list.
C12_RefreshRetry ==
    [][ \A t \in Tasks :
          LET c == calls[t]
              d == calls'[t]
          IN
          /\ (c.pc = "ext" /\ d.response.status = 403 /\ d.response.body # "Unreadable"
                /\ HasMarker(d.response.body) /\ d.lastSeen = 403 /\ d.extCount = c.extCount
                /\ d.x = c.x /\ d.pc # "ext") =>
               /\ d.pc = "acq" /\ d.site = "r321"
               /\ d.acqRuns["r321"] = c.acqRuns["r321"] + 1
          /\ d.acqRuns["r321"] > c.acqRuns["r321"] => c.pc = "ext" /\ c.extCount = 1
          /\ (c.pc = "acquired" /\ c.site = "r321" /\ d.pc # "acquired") =>
               /\ c.acquired # null =>
                    /\ d.pc = "extRetry" /\ d.x = c.x /\ d.extCount = 2
                    /\ d.sent = c.acquired
               /\ c.acquired = null => Continues(c, d)
          /\ (c.pc = "extRetry" /\ d.pc # "extRetry") =>
               /\ d.lastSeen \in {200, 201, 204} =>
                    RefreshReturned(d) /\ d.outcome = Refreshed(d.robloxCookie, undefined)
               /\ d.lastSeen \notin {200, 201, 204} => Continues(c, d)
          /\ (c.pc = "extRetry" /\ d.pc = "extRetry") => d = c
      ]_vars

\* the retry of endpoint 1 was answered 401 and the call went on to endpoint 2
C12_Witness ==
    \E t \in Tasks :
      LET c == calls[t] IN
      /\ c.fn = "refresh" /\ c.pc = "ext" /\ c.x = 2
      /\ c.lastSeen = 401 /\ c.acqRuns["r321"] = 1

\* the transport exception's message, as validate and as refresh hand it on
Surfaced == {FetchError, "Cannot refresh invalid cookie: " \o FetchError}

\* C13 as stated: a thrown upstream request, at any upstream call of validate
\* or refresh, is never surfaced: no outcome is valid:false / refreshed:false
\* with the transport exception's message as its error.
C13_TransportNeverSurfaced ==
    \A t \in Tasks :
      LET c == calls[t] IN
      /\ ValidateReturned(c) => c.validation.error \notin Surfaced
      /\ RefreshReturned(c) => c.outcome.error \notin Surfaced

\* C13 amended: a thrown request during token acquisition or at a
\* session-extending endpoint is recovered by going on to the next endpoint
\* of that list and produces no outcome of its own; a thrown identity
\* request, first or retry, ends validate with valid:false carrying the
\* exception's message, which refresh hands on after its prefix; the message
\* reaches an outcome in no other way.
C13_TransportSkippedInLists ==
    [][ \A t \in Tasks :
          LET c == calls[t]
              d == calls'[t]
          IN
          /\ AcquireStep(t, Thrown) =>
               /\ d.validation = c.validation /\ d.outcome = c.outcome
               /\ csrfTokens' = csrfTokens
               /\ IF c.e < Len(csrfEndpoints)
                  THEN d.pc = "acq" /\ d.e = c.e + 1
                  ELSE d.pc = "acquired" /\ d.acquired = null
          /\ (RefreshStep(t, Thrown) \/ RefreshRetryStep(t, Thrown)) =>
               /\ Continues(c, d)
               /\ d.outcome.error \notin Surfaced
          /\ (IdentityStep(t, Thrown) \/ IdentityRetryStep(t, Thrown)) =>
               /\ ValidateReturned(d)
               /\ d.validation = Invalid(FetchError)
          /\ (d.validation.error = FetchError /\ c.validation.error # FetchError) =>
               IdentityStep(t, Thrown) \/ IdentityRetryStep(t, Thrown)
          /\ d.outcome.error # FetchError
          /\ (d.outcome.error \in Surfaced /\ c.outcome.error \notin Surfaced) =>
               /\ c.pc = "validated" /\ c.validation = Invalid(FetchError)
               /\ d.x = 0
      ]_vars

\* every session-extending request threw, and the call returned the
\* optimistic success
C13_Witness ==
    \E t \in Tasks :
      LET c == calls[t] IN
      /\ RefreshReturned(c) /\ c.x = Len(refreshEndpoints) /\ c.lastSeen = 0
      /\ c.outcome.refreshed /\ c.outcome.warning # undefined

\* both tasks are in a validate call for cookie k that missed the cache on
\* entry and ran token acquisition, one of them begun while the other ran
BothMissed(k) ==
    /\ \A t \in Tasks :
         /\ calls[t].fn = "validate" /\ calls[t].robloxCookie = k
         /\ calls[t].acqRuns["v117"] = 1
    /\ \E t \in Tasks : calls[t].overlapped

BothFinished == \A t \in Tasks : calls[t].pc = "done"

\* the entry is absent or a whole (token, timestamp) pair
Complete(entry) ==
    \/ entry = NoEntry
    \/ entry.token \in Tokens /\ entry.timestamp \in 0..now

\* C14 as stated: with two concurrent validate calls for one session that
\* both start with no fresh entry, the cache is never corrupted: the
\* session's entry is at all times a complete pair written by a single
\* store, and after both calls finish the entry is the one written by the
\* store that executed last.
C14_LastStoreWins ==
    \A k \in Cookies :
      /\ Complete(csrfTokens[k])
      /\ csrfTokens[k] \in {NoEntry, lastStore[k]}
      /\ (BothMissed(k) /\ BothFinished) => csrfTokens[k] = lastStore[k]

\* C14 amended: the session's entry is at all times absent or the complete
\* pair written by the store that executed last; after both calls finish it
\* is that pair whenever both calls stored a token, and it is absent only if
\* no store executed or a lookup evicted the expired pair after the last
\* store.
C14_LastStoreWinsUnlessEvicted ==
    \A k \in Cookies :
      /\ Complete(csrfTokens[k]) /\ Complete(lastStore[k])
      /\ csrfTokens[k] \in {NoEntry, lastStore[k]}
      /\ (BothMissed(k) /\ BothFinished) =>
           /\ (\A t \in Tasks : calls[t].vToken # null) =>
                /\ csrfTokens[k] = lastStore[k] /\ csrfTokens[k] # NoEntry
                /\ \E t \in Tasks : calls[t].vToken = csrfTokens[k].token
           /\ (csrfTokens[k] = NoEntry /\ lastStore[k] # NoEntry) =>
                /\ now - lastStore[k].timestamp >= FiveMinutes
                /\ \E t \in Tasks : calls[t].vToken = null

\* both calls missed the cache, both acquired, each a different token, at
\* different times; the entry left is the pair of the later store
C14_Witness ==
    /\ BothMissed("S1") /\ BothFinished
    /\ calls[1].vToken = "T1" /\ calls[2].vToken = "T2"
    /\ csrfTokens["S1"] = [token |-> "T1", timestamp |-> TickStep]
    /\ lastStore["S1"] = csrfTokens["S1"]

\* the running getCSRFToken has asked every endpoint once, in list order
AskedAllInOrder(c) ==
    /\ Len(c.acqSent) = Len(csrfEndpoints)
    /\ \A i \in 1..Len(c.acqSent) : c.acqSent[i] = i

\* C15: when no acquisition endpoint returns the anti-forgery header (each
\* answers without it, answers 403 naming the mechanism, or throws), acquire
\* contacts each of the N endpoints exactly once in list order, returns
\* failure and leaves the token cache unchanged; and, succeeding or failing,
\* acquire for one session never creates, changes or removes the entry of
\* another session.
C15_AcquireFrame ==
    [][ \A t \in Tasks :
          LET c == calls[t]
              d == calls'[t]
          IN
          (c.pc = "acq" /\ d # c) =>
            /\ \A other \in Cookies \ {c.robloxCookie} : csrfTokens'[other] = csrfTokens[other]
            /\ (d.pc = "acq" \/ d.acquired = null) => csrfTokens' = csrfTokens
            /\ d.pc = "acq" => d.acqSent = Append(c.acqSent, c.e + 1) /\ d.e = c.e + 1
            /\ d.pc = "acquired" => d.acqSent = c.acqSent /\ d.e = c.e
            /\ (d.pc = "acquired" /\ d.acquired = null) =>
                 /\ AskedAllInOrder(d)
                 /\ Len(d.acqHdrs) = Len(csrfEndpoints)
                 /\ \A i \in 1..Len(d.acqHdrs) : d.acqHdrs[i] = null
            /\ (d.pc = "acquired" /\ \A i \in 1..Len(d.acqHdrs) : d.acqHdrs[i] = null) =>
                 d.acquired = null
      ]_vars

\* a run for one session has failed after four requests while both that
\* session and the other one have an entry, stored by the other task's calls
C15_Witness ==
    \E t \in Tasks :
      LET c == calls[t] IN
      /\ c.pc = "acquired" /\ c.acquired = null /\ AskedAllInOrder(c)
      /\ \A k \in Cookies : csrfTokens[k] # NoEntry

\* C16 as stated: every request refresh sends to a session-extending
\* endpoint, first or retry, at any position of the list, carries the session
\* cookie and a present anti-forgery token, also after an earlier endpoint's
\* rejection was followed by a failed re-acquisition.
C16_TokenPresent ==
    \A t \in Tasks :
      LET c == calls[t] IN
      (c.fn = "refresh" /\ c.pc \in {"ext", "extRetry"}) =>
        /\ c.robloxCookie \in Cookies
        /\ Truthy(c.sent)

\* the answer to the last identity request validate sent
LastIdentityAnswer(c) == IF c.identCount = 2 THEN c.retryResponse ELSE c.response

\* C17: outcomes are sound with respect to what the call observed: validate
\* returns valid:true only if the identity endpoint answered 2xx, in that
\* call, to a request carrying the session and a token; refresh returns
\* refreshed:true without a warning only if a session-extending endpoint
\* answered 200, 201 or 204 in that call; every refreshed:true outcome has
\* cookie equal to the cookie the call was given.
C17_SoundOutcomes ==
    \A t \in Tasks :
      LET c == calls[t] IN
      /\ (ValidateReturned(c) /\ c.validation.valid) =>
            /\ c.identCount \in {1, 2}
            /\ ok(LastIdentityAnswer(c).status)
            /\ ~LastIdentityAnswer(c).threw
            /\ Truthy(c.sent) /\ c.sent = c.vToken
            /\ c.robloxCookie \in Cookies
      /\ (RefreshReturned(c) /\ c.outcome.refreshed /\ c.outcome.warning = undefined) =>
            /\ c.lastSeen \in {200, 201, 204}
            /\ c.x >= 1 /\ c.extCount >= 1
      /\ (RefreshReturned(c) /\ c.outcome.refreshed) => c.outcome.cookie = c.robloxCookie

\* the third session-extending endpoint answered 204 to its first request
\* and refresh returned the confirmed success
C17_Witness ==
    \E t \in Tasks :
      LET c == calls[t] IN
      /\ RefreshReturned(c) /\ c.x = 3 /\ c.extCount = 1 /\ c.response.status = 204
      /\ c.outcome = Refreshed(c.robloxCookie, undefined)

\* C18 as stated: once a token taken from the cache has been answered with
\* an anti-forgery rejection, no later lookup for the session returns it
\* unless a later acquisition stored it again; in particular, after a failed
\* re-acquisition the next validate call for the session does not send the
\* rejected token.
C18_RejectedNotReused ==
    \A t \in Tasks :
      LET c == calls[t] IN
      (c.fn = "validate" /\ c.prev.fn = "validate"
         /\ c.prev.robloxCookie = c.robloxCookie
         /\ c.prev.rejectedToken # null
         /\ c.pc = "ident" /\ Runs(c) = 0) =>
        c.sent # c.prev.rejectedToken

\* task t's step issues a request to the identity endpoint or to a
\* session-extending endpoint
Issued(t) ==
    /\ calls'[t].pc \in {"ident", "identRetry", "ext", "extRetry"}
    /\ <<calls'[t].pc, calls'[t].x>> # <<calls[t].pc, calls[t].x>>

\* C19 as stated: with time advancing at every network await, every request
\* validate or refresh sends with an anti-forgery token is issued less than
\* five minutes after that token was stored in the cache, also across the
\* successive session-extending endpoints of one refresh call.
C19_TokenYoungWhenSent ==
    [][ \A t \in Tasks :
          (Issued(t) /\ calls'[t].sent # null) =>
            /\ calls'[t].tokenAt >= 0
            /\ now' - calls'[t].tokenAt < FiveMinutes
      ]_vars

\* N acquisition endpoints, M session-extending endpoints
ValidateBound == 2 * Len(csrfEndpoints) + 2
RefreshBound ==
    ValidateBound + Len(csrfEndpoints)
      + Len(refreshEndpoints) * (1 + Len(csrfEndpoints) + 1)

InCall(t) == calls[t].pc \notin {"idle", "done"}

\* C20: provided every upstream request is answered or throws in the end,
\* every validate call and every refresh call returns in the end, after a
\* bounded number of upstream requests: validate issues at most 2N + 2 (two
\* acquisitions, two identity requests), refresh at most those of one
\* validate, plus one direct acquisition, plus M times (one request, one
\* acquisition, one retry).
C20_Terminates ==
    /\ \A t \in Tasks : InCall(t) ~> (calls[t].pc = "done")
    /\ [](\A t \in Tasks :
            LET c == calls[t] IN
            /\ c.fn = "validate" => c.requests <= ValidateBound
            /\ c.fn = "refresh" => c.requests <= RefreshBound
            /\ (c.fn = "refresh" /\ c.x = 0) => c.requests <= ValidateBound + Len(csrfEndpoints)
            /\ Runs(c) <= 2 + 1 + Len(refreshEndpoints))

\* a refresh call has returned after exactly as many requests as the bound
\* allows
C20_Witness ==
    \E t \in Tasks :
      /\ RefreshReturned(calls[t])
      /\ calls[t].requests = RefreshBound

====
